---- MODULE Spec2Model ----
(***************************************************************************)
(* Model of the HotShot testing harness:                                   *)
(*   - TestRunner (testing/src/lib.rs): node lifecycle and round engine    *)
(*   - NetworkNodeHandle::spin_up_swarms / wait_to_connect                 *)
(*     (libp2p-networking/src/network_node_handle.rs)                      *)
(***************************************************************************)
EXTENDS Integers, Sequences, FiniteSets, TLC

(***************************************************************************)
(* Bounds of the model                                                     *)
(***************************************************************************)
\* next_node_id is a u64 counter; adds are enabled while it stays below this
MaxNodeId == 3
\* largest `count` handed to add_nodes
MaxCount == 3
\* largest num_success handed to execute_rounds
MaxSuccess == 1
\* largest fail_threshold handed to execute_rounds
MaxThreshold == 2
\* largest num_of_nodes handed to spin_up_swarms
MaxSwarm == 2
MaxLeaves == 3      \* distinct decided leaves the nodes may report
MaxValidated == 4   \* nodes held when validate_node_states is called
MaxEvents == 2      \* events the network node emits to one handle
MaxKills == 2       \* kill() calls made on one handle

VARIABLES
    \* ---- TestRunner ----
    nodes,          \* TestRunner.nodes: Vec<Node>, Node = [node_id, handle]
    next_node_id,   \* TestRunner.next_node_id
    shut,           \* handles on which shut_down() has been awaited
    returned_ids,   \* every id returned by add_node_with_config, in call order
    pc,             \* where the runner's current call stands
    mode,           \* which entry point is running: execute_round / execute_rounds
    er,             \* locals of execute_rounds: num_success, fail_threshold, i, num_fails
    rounds,         \* per-call counts of execute_round outcomes: ok, pre_err, post_err
    result,         \* RoundResult built by run_one_round for the round in progress
    ret,            \* what the call that completed in the last step returned
    calls,          \* calls made by the last execute_round on hooks and handles, in order
    \* ---- spin_up_swarms ----
    sw,             \* state of one spin_up_swarms call
    \* ---- validate_node_states ----
    vs,             \* the decided leaves read by validate_node_states and how it ended
    \* ---- one NetworkNodeHandle ----
    hd              \* the handle's channels, its event-handler task and its kill() call

runner_vars == <<nodes, next_node_id, shut, returned_ids, pc, mode, er, rounds,
                 result, ret, calls>>
vars == <<nodes, next_node_id, shut, returned_ids, pc, mode, er, rounds,
          result, ret, calls, sw, vs, hd>>

NoRet == [op |-> "none"]
NoResult == [built |-> FALSE]
\* RoundCtx::default(): the context of a run of rounds starts empty. No code
\* of the crate writes its fields afterwards: they are private to it, and
\* execute_round and the default hooks only hand the context on.
RoundCtx_default ==
    [prior_round_results |-> <<>>, views_since_progress |-> 0, total_failed_views |-> 0]
NoEr == [num_success |-> 0, fail_threshold |-> 0, i |-> 0, num_fails |-> 0,
         ctx |-> RoundCtx_default]
NoSwarm == [phase |-> "none"]
NoValidation == [phase |-> "none"]
NoHandle == [phase |-> "none"]

(***************************************************************************)
(* TestRunner: pure helpers                                                *)
(***************************************************************************)

\* TestRunner::ids: node ids in list order
ids(ns) == [k \in 1..Len(ns) |-> ns[k].node_id]

\* Iterator::position(|n| n.node_id == node_id): 1-based index of the first
\* match, 0 for None
position(ns, node_id) ==
    IF \E k \in 1..Len(ns) : ns[k].node_id = node_id
    THEN CHOOSE k \in 1..Len(ns) :
            /\ ns[k].node_id = node_id
            /\ \A j \in 1..(k - 1) : ns[j].node_id # node_id
    ELSE 0

\* Vec::remove(idx): drops the element, shifting the rest left
remove(ns, idx) ==
    [k \in 1..(Len(ns) - 1) |-> IF k < idx THEN ns[k] ELSE ns[k + 1]]

\* TestRunner::get_handle: handle of the first node with that id, or "None"
get_handle(ns, id) ==
    IF position(ns, id) = 0 THEN "None" ELSE ns[position(ns, id)].handle

\* Mutant of add_node_with_config: the counter is not advanced
add_node_with_config_noincr(ns, nx) ==
    [nodes |-> Append(ns, [node_id |-> nx, handle |-> nx]),
     next_node_id |-> nx,
     node_id |-> nx]

\* Mutant of add_node_with_config: the id is the current list length, so the
\* id of a node that was shut down is handed out again
add_node_with_config_reuse(ns, nx) ==
    [nodes |-> Append(ns, [node_id |-> Len(ns), handle |-> Len(ns)]),
     next_node_id |-> nx + 1,
     node_id |-> Len(ns)]

\* TestRunner::add_node_with_config, the path on which HotShot::init succeeds:
\* takes the id, advances the counter, pushes the node, returns the id
add_node_with_config(ns, nx) ==
    [nodes |-> Append(ns, [node_id |-> nx, handle |-> nx]),
     next_node_id |-> nx + 1,
     node_id |-> nx]

\* TestRunner::add_nodes: `count` calls of add_node_with_config; st carries
\* nodes, next_node_id and the ids collected in `results`
RECURSIVE add_nodes(_, _)
add_nodes(st, count) ==
    IF count = 0 THEN st
    ELSE LET a == add_node_with_config(st.nodes, st.next_node_id)
         IN add_nodes([nodes |-> a.nodes,
                       next_node_id |-> a.next_node_id,
                       results |-> Append(st.results, a.node_id)],
                      count - 1)

\* Mutant of shutdown_find: looks the node up by list index instead of by id
shutdown_find_by_index(ns, node_id) ==
    IF node_id + 1 \in 1..Len(ns) THEN node_id + 1 ELSE 0

\* the lookup of TestRunner::shutdown
shutdown_find(ns, node_id) == position(ns, node_id)

\* Mutant of shutdown_remove: swap_remove instead of remove
shutdown_swap_remove(ns, idx) ==
    [k \in 1..(Len(ns) - 1) |-> IF k = idx THEN ns[Len(ns)] ELSE ns[k]]

\* the removal of TestRunner::shutdown
shutdown_remove(ns, idx) == remove(ns, idx)

(***************************************************************************)
(* TestRunner: round engine helpers                                        *)
(***************************************************************************)

EmptyMap == [x \in {} |-> "none"]

\* HashMap::insert: an existing key is overwritten
insert(m, k, v) == [x \in (DOMAIN m) \cup {k} |-> IF x = k THEN v ELSE m[x]]

\* Mutant of collect_one: a node whose collect_round_events failed is dropped
collect_one_drop_err(acc, node, res) ==
    IF res = "Ok"
    THEN [acc EXCEPT !.results = insert(acc.results, node.node_id, "state_block")]
    ELSE acc

\* body of the second loop of run_one_round: the node's outcome goes into
\* `results` (Ok) or into `failures` (Err), keyed by node_id
collect_one(acc, node, res) ==
    IF res = "Ok"
    THEN [acc EXCEPT !.results = insert(acc.results, node.node_id, "state_block")]
    ELSE [acc EXCEPT !.failures = insert(acc.failures, node.node_id, "error")]

\* the second loop of run_one_round over self.nodes, in list order;
\* outcome[k] is what collect_round_events returned for the k-th node
RECURSIVE collect(_, _, _, _)
collect(ns, outcome, k, acc) ==
    IF k > Len(ns) THEN acc
    ELSE collect(ns, outcome, k + 1, collect_one(acc, ns[k], outcome[k]))

\* TestRunner::run_one_round on the path where the `success` placeholder
\* yields a value: the RoundResult (its txns field, an opaque list handed
\* through from setup_round, is left out)
run_one_round(ns, outcome, success) ==
    LET acc == collect(ns, outcome, 1, [results |-> EmptyMap, failures |-> EmptyMap])
    IN [built |-> TRUE,
        success_nodes |-> acc.results,
        failed_nodes |-> acc.failures,
        success |-> success]

\* Mutant of execute_rounds_step: the threshold test is >= instead of >
execute_rounds_step_ge(e, failed) ==
    LET nf == IF failed THEN e.num_fails + 1 ELSE e.num_fails
    IN IF failed /\ nf >= e.fail_threshold
       THEN [er |-> [e EXCEPT !.num_fails = nf], next |-> "TooManyFailures"]
       ELSE IF e.i + 1 < e.num_success + e.fail_threshold
            THEN [er |-> [e EXCEPT !.num_fails = nf, !.i = e.i + 1], next |-> "continue"]
            ELSE [er |-> [e EXCEPT !.num_fails = nf, !.i = e.i + 1], next |-> "Ok"]

\* Mutant of execute_rounds_step: the loop stops once num_success rounds succeeded
execute_rounds_step_early(e, failed) ==
    LET nf == IF failed THEN e.num_fails + 1 ELSE e.num_fails
    IN IF failed /\ nf > e.fail_threshold
       THEN [er |-> [e EXCEPT !.num_fails = nf], next |-> "TooManyFailures"]
       ELSE IF e.i + 1 < e.num_success + e.fail_threshold
               /\ (e.i + 1) - nf < e.num_success
            THEN [er |-> [e EXCEPT !.num_fails = nf, !.i = e.i + 1], next |-> "continue"]
            ELSE [er |-> [e EXCEPT !.num_fails = nf, !.i = e.i + 1], next |-> "Ok"]

\* Mutant of execute_rounds_step: the range is 0..=(num_success + fail_threshold)
execute_rounds_step_inclusive(e, failed) ==
    LET nf == IF failed THEN e.num_fails + 1 ELSE e.num_fails
    IN IF failed /\ nf > e.fail_threshold
       THEN [er |-> [e EXCEPT !.num_fails = nf], next |-> "TooManyFailures"]
       ELSE IF e.i + 1 < e.num_success + e.fail_threshold + 1
            THEN [er |-> [e EXCEPT !.num_fails = nf, !.i = e.i + 1], next |-> "continue"]
            ELSE [er |-> [e EXCEPT !.num_fails = nf, !.i = e.i + 1], next |-> "Ok"]

\* Mutant of execute_rounds_step: a failed round is not counted
execute_rounds_step_nocount(e, failed) ==
    IF e.i + 1 < e.num_success + e.fail_threshold
    THEN [er |-> [e EXCEPT !.i = e.i + 1], next |-> "continue"]
    ELSE [er |-> [e EXCEPT !.i = e.i + 1], next |-> "Ok"]

\* one iteration of the loop of execute_rounds after execute_round returned:
\* count a failure, return TooManyFailures when num_fails > fail_threshold,
\* else go on to the next i of 0..(num_success + fail_threshold), or return Ok
execute_rounds_step(e, failed) ==
    LET nf == IF failed THEN e.num_fails + 1 ELSE e.num_fails
    IN IF failed /\ nf > e.fail_threshold
       THEN [er |-> [e EXCEPT !.num_fails = nf], next |-> "TooManyFailures"]
       ELSE IF e.i + 1 < e.num_success + e.fail_threshold
            THEN [er |-> [e EXCEPT !.num_fails = nf, !.i = e.i + 1], next |-> "continue"]
            ELSE [er |-> [e EXCEPT !.num_fails = nf, !.i = e.i + 1], next |-> "Ok"]

NoRounds == [ok |-> 0, pre_err |-> 0, post_err |-> 0]

(***************************************************************************)
(* TestRunner: state machine                                               *)
(***************************************************************************)

RunnerInit ==
    /\ nodes = <<>>
    /\ next_node_id = 0
    /\ shut = {}
    /\ returned_ids = <<>>
    /\ pc = "idle"
    /\ mode = "none"
    /\ er = NoEr
    /\ rounds = NoRounds
    /\ result = NoResult
    /\ ret = NoRet
    /\ calls = <<>>

\* The runner's methods take &mut self: they run between calls (pc = "idle")
\* or from inside setup_round, which is handed &mut TestRunner (pc = "setup").
Callable == pc \in {"idle", "setup"}

\* A fresh top-level call forgets the bookkeeping of the previous one; a call
\* made by the setup hook leaves the round in progress alone.
Frame ==
    IF pc = "idle"
    THEN /\ mode' = "none"
         /\ er' = NoEr
         /\ rounds' = NoRounds
         /\ result' = NoResult
         /\ calls' = <<>>
         /\ pc' = "idle"
    ELSE UNCHANGED <<mode, er, rounds, result, calls, pc>>

\* TestRunner::add_nodes(count)
AddNodes(count) ==
    /\ Callable
    /\ next_node_id + count <= MaxNodeId
    /\ LET st == add_nodes([nodes |-> nodes, next_node_id |-> next_node_id,
                            results |-> <<>>], count)
       IN /\ nodes' = st.nodes
          /\ next_node_id' = st.next_node_id
          /\ returned_ids' = returned_ids \o st.results
          /\ ret' = [op |-> "add_nodes", val |-> st.results]
    /\ Frame
    /\ UNCHANGED <<shut, sw, vs, hd>>

\* TestRunner::add_node_with_config(...)
AddNodeWithConfig ==
    /\ Callable
    /\ next_node_id < MaxNodeId
    /\ LET a == add_node_with_config(nodes, next_node_id)
       IN /\ nodes' = a.nodes
          /\ next_node_id' = a.next_node_id
          /\ returned_ids' = Append(returned_ids, a.node_id)
          /\ ret' = [op |-> "add_node_with_config", val |-> a.node_id]
    /\ Frame
    /\ UNCHANGED <<shut, sw, vs, hd>>

\* add_node_with_config when HotShot::init fails: the counter has been
\* advanced, .expect() panics before the node is pushed
AddNodeInitPanics ==
    /\ Callable
    /\ next_node_id < MaxNodeId
    /\ next_node_id' = next_node_id + 1
    /\ pc' = "panicked"
    /\ ret' = [op |-> "panic", in |-> "add_node_with_config"]
    /\ calls' = IF pc = "idle" THEN <<>> ELSE calls
    /\ UNCHANGED <<nodes, shut, returned_ids, mode, er, rounds, result, sw, vs, hd>>

\* TestRunner::shutdown(node_id)
Shutdown(node_id) ==
    /\ Callable
    /\ LET idx == shutdown_find(nodes, node_id)
       IN IF idx # 0
          THEN /\ nodes' = shutdown_remove(nodes, idx)
               /\ shut' = shut \cup {nodes[idx].handle}
               /\ ret' = [op |-> "shutdown", arg |-> node_id, val |-> [tag |-> "Ok"]]
          ELSE /\ ret' = [op |-> "shutdown", arg |-> node_id,
                          val |-> [tag |-> "NoSuchNode",
                                   node_ids |-> ids(nodes),
                                   requested_id |-> node_id]]
               /\ UNCHANGED <<nodes, shut>>
    /\ Frame
    /\ UNCHANGED <<next_node_id, returned_ids, sw, vs, hd>>

\* Option<usize> arguments of add_random_transaction
Some(id) == [some |-> TRUE, id |-> id]
None == [some |-> FALSE, id |-> 0]

\* add_random_transaction: the place in the list of the node the transaction
\* is submitted through, 0 when the unwrap() panics. Some(node_id) goes
\* through self.nodes.get(node_id), the element at offset node_id of the
\* list; None through a random choice `pick` among the nodes.
add_random_transaction_node(ns, node_id, pick) ==
    IF node_id.some
    THEN IF node_id.id < Len(ns) THEN node_id.id + 1 ELSE 0
    ELSE pick

\* TestRunner::add_random_transaction(node_id, rng); submitted says whether
\* submit_transaction returned Ok
AddRandomTransaction(node_id, pick, submitted) ==
    /\ Callable
    /\ (pick = 0) = (nodes = <<>>)
    /\ LET idx == add_random_transaction_node(nodes, node_id, pick)
       IN IF nodes = <<>> \/ idx = 0 \/ ~submitted
          THEN /\ pc' = "panicked"
               /\ ret' = [op |-> "panic", in |-> "add_random_transaction"]
               /\ calls' = IF pc = "idle" THEN <<>> ELSE calls
               /\ UNCHANGED <<mode, er, rounds, result>>
          ELSE /\ ret' = [op |-> "add_random_transaction", arg |-> node_id,
                          val |-> nodes[idx]]
               /\ Frame
    /\ UNCHANGED <<nodes, next_node_id, shut, returned_ids, sw, vs, hd>>

\* TestRunner::execute_rounds(num_success, fail_threshold), up to the first
\* execute_round; with an empty range it returns Ok at once
ExecuteRounds(num_success, fail_threshold) ==
    /\ pc = "idle"
    /\ er' = [num_success |-> num_success, fail_threshold |-> fail_threshold,
              i |-> 0, num_fails |-> 0, ctx |-> RoundCtx_default]
    /\ mode' = "rounds"
    /\ rounds' = NoRounds
    /\ result' = NoResult
    /\ IF num_success + fail_threshold = 0
       THEN /\ pc' = "idle"
            /\ ret' = [op |-> "execute_rounds", val |-> "Ok", round |-> "none",
                       error |-> "none"]
       ELSE /\ pc' = "pre"
            /\ ret' = NoRet
    /\ calls' = <<>>
    /\ UNCHANGED <<nodes, next_node_id, shut, returned_ids, sw, vs, hd>>

\* TestRunner::execute_round called directly, up to safety_check_pre
ExecuteRound ==
    /\ pc = "idle"
    /\ mode' = "round"
    /\ er' = NoEr
    /\ rounds' = NoRounds
    /\ result' = NoResult
    /\ pc' = "pre"
    /\ ret' = NoRet
    /\ calls' = <<>>
    /\ UNCHANGED <<nodes, next_node_id, shut, returned_ids, sw, vs, hd>>

\* the value execute_round returns on `out`: Ok(()) or the hook's error
round_error(out) ==
    IF out = "pre_err" THEN "PreCheckError"
    ELSE IF out = "post_err" THEN "PostCheckError" ELSE "none"

\* execute_round returns `out` ("ok", "pre_err" or "post_err") to its caller:
\* to the test (mode "round") or to the loop of execute_rounds (mode "rounds")
RoundReturns(out) ==
    /\ rounds' = [rounds EXCEPT ![out] = @ + 1]
    /\ IF mode = "round"
       THEN /\ pc' = "idle"
            /\ ret' = [op |-> "execute_round", val |-> IF out = "ok" THEN "Ok" ELSE "Err",
                       round |-> IF out = "ok" THEN "Ok" ELSE "Err",
                       error |-> round_error(out)]
            /\ er' = er
       ELSE LET step == execute_rounds_step(er, out # "ok")
            IN /\ er' = step.er
               /\ IF step.next = "continue"
                  THEN /\ pc' = "pre"
                       /\ ret' = [op |-> "execute_round",
                                  val |-> IF out = "ok" THEN "Ok" ELSE "Err",
                                  round |-> IF out = "ok" THEN "Ok" ELSE "Err",
                                  error |-> round_error(out)]
                  ELSE /\ pc' = "idle"
                       /\ ret' = [op |-> "execute_rounds", val |-> step.next,
                                  round |-> IF out = "ok" THEN "Ok" ELSE "Err",
                                  error |-> round_error(out)]

\* an entry of `calls`: the hook or handle method called, the handle it was
\* called on (-1 for a hook) and what it returned ("-" when not looked at)
Call(op, node, res) == [op |-> op, node |-> node, res |-> res]

\* Mutant of after_safety_check_pre: the pre-check's error is not propagated
after_safety_check_pre_ignored(ok) == "setup"

\* the `?` on safety_check_pre(self, ctx).await: on Ok the round goes on to
\* setup_round, on Err execute_round returns the error
after_safety_check_pre(ok) == IF ok THEN "setup" ELSE "return"

\* Mutant of run_one_round_calls: one loop that starts a node and at once
\* collects its events
run_one_round_calls_interleaved(ns, outcome) ==
    [k \in 1..(2 * Len(ns)) |->
        IF k % 2 = 1
        THEN Call("start_one_round", ns[(k + 1) \div 2].handle, "-")
        ELSE Call("collect_round_events", ns[k \div 2].handle, outcome[k \div 2])]

\* the calls run_one_round makes on the handles: the first loop calls
\* start_one_round on every node, the second then awaits
\* collect_round_events node by node, both in list order
run_one_round_calls(ns, outcome) ==
    [k \in 1..Len(ns) |-> Call("start_one_round", ns[k].handle, "-")]
    \o [k \in 1..Len(ns) |-> Call("collect_round_events", ns[k].handle, outcome[k])]

\* execute_round: safety_check_pre(self, ctx).await? ; the hook is any
\* callable. On Ok setup_round(self, ctx) is called next.
PreCheck(ok) ==
    /\ pc = "pre"
    /\ IF after_safety_check_pre(ok) = "setup"
       THEN /\ pc' = "setup"
            /\ ret' = NoRet
            /\ result' = NoResult
            /\ calls' = <<Call("safety_check_pre", -1, IF ok THEN "Ok" ELSE "Err"),
                          Call("setup_round", -1, "-")>>
            /\ UNCHANGED <<er, rounds>>
       ELSE /\ RoundReturns("pre_err")
            /\ result' = NoResult
            /\ calls' = <<Call("safety_check_pre", -1, "Err")>>
    /\ UNCHANGED <<nodes, next_node_id, shut, returned_ids, mode, sw, vs, hd>>

\* execute_round: setup_round(self, ctx) returns its transactions
SetupReturns ==
    /\ pc = "setup"
    /\ pc' = "run"
    /\ ret' = NoRet
    /\ UNCHANGED <<nodes, next_node_id, shut, returned_ids, mode, er, rounds, result,
                   calls, sw, vs, hd>>

\* execute_round: run_one_round(txns). outcome[k] is the result of
\* collect_round_events on the k-th node. The `success` field is filled by
\* nll_todo(), a placeholder of another crate: it may yield either boolean
\* or panic.
RunOneRound(outcome, success) ==
    /\ pc = "run"
    /\ calls' = calls \o run_one_round_calls(nodes, outcome)
    /\ IF success = "panic"
       THEN /\ pc' = "panicked"
            /\ result' = NoResult
            /\ ret' = [op |-> "panic", in |-> "run_one_round"]
       ELSE /\ pc' = "post"
            /\ result' = run_one_round(nodes, outcome, success = "true")
            /\ ret' = NoRet
    /\ UNCHANGED <<nodes, next_node_id, shut, returned_ids, mode, er, rounds, sw, vs, hd>>

\* execute_round: safety_check_post(self, ctx, results).await? ; Ok(())
PostCheck(ok) ==
    /\ pc = "post"
    /\ RoundReturns(IF ok THEN "ok" ELSE "post_err")
    /\ calls' = Append(calls, Call("safety_check_post", -1, IF ok THEN "Ok" ELSE "Err"))
    /\ UNCHANGED <<nodes, next_node_id, shut, returned_ids, mode, result, sw, vs, hd>>

RunnerNext ==
    \/ \E count \in 0..MaxCount : AddNodes(count)
    \/ AddNodeWithConfig
    \/ AddNodeInitPanics
    \/ \E node_id \in 0..MaxNodeId : Shutdown(node_id)
    \/ \E node_id \in {None} \cup {Some(id) : id \in 0..MaxNodeId},
          pick \in 0..Len(nodes), submitted \in BOOLEAN :
            AddRandomTransaction(node_id, pick, submitted)
    \/ \E ns \in 0..MaxSuccess, ft \in 0..MaxThreshold : ExecuteRounds(ns, ft)
    \/ ExecuteRound
    \/ \E ok \in BOOLEAN : PreCheck(ok)
    \/ SetupReturns
    \/ \E outcome \in [1..Len(nodes) -> {"Ok", "Err"}],
          success \in {"true", "false", "panic"} : RunOneRound(outcome, success)
    \/ \E ok \in BOOLEAN : PostCheck(ok)

Init == RunnerInit /\ sw = NoSwarm /\ vs = NoValidation /\ hd = NoHandle

Spec == Init /\ [][RunnerNext]_vars

(***************************************************************************)
(* NetworkNodeHandle::spin_up_swarms and wait_to_connect                   *)
(***************************************************************************)

\* peer sets a network event may carry: one set of every size up to n
PeerSets(n) == {1..k : k \in 0..n}

\* the events a node's channel may deliver to its waiter; "Closed" stands for
\* the channel being disconnected, on which recv_async() returns RecvError
Events(n) ==
    {[type |-> t, pids |-> ps] :
        t \in {"UpdateConnectedPeers", "UpdateKnownPeers"}, ps \in PeerSets(n)}
    \cup {[type |-> "Other", pids |-> {}], [type |-> "Closed", pids |-> {}]}

\* NetworkNodeHandle::new: connection_state is Arc::default()
new_handle == [connected_peers |-> {}, known_peers |-> {}]

\* the locals of a wait_to_connect future that has not been polled yet
new_waiter == [state |-> "pending", connected_ok |-> FALSE, known_ok |-> FALSE]

\* the threshold of wait_to_connect: 3 * num_of_nodes / 4 in usize arithmetic
threshold(num_of_nodes) == (3 * num_of_nodes) \div 4

\* one turn of the loop of wait_to_connect on the event ev: the handle's
\* connection_state is overwritten, the flags are raised at the threshold,
\* RecvError leaves through `?`, and the loop ends once both flags are up
wait_to_connect_step(w, h, ev, num_of_nodes) ==
    IF ev.type = "Closed"
    THEN [w |-> [w EXCEPT !.state = "RecvError"], h |-> h]
    ELSE LET reached == Cardinality(ev.pids) >= threshold(num_of_nodes)
             w1 == IF ev.type = "UpdateConnectedPeers" /\ reached
                   THEN [w EXCEPT !.connected_ok = TRUE]
                   ELSE IF ev.type = "UpdateKnownPeers" /\ reached
                        THEN [w EXCEPT !.known_ok = TRUE]
                        ELSE w
             h1 == IF ev.type = "UpdateConnectedPeers"
                   THEN [h EXCEPT !.connected_peers = ev.pids]
                   ELSE IF ev.type = "UpdateKnownPeers"
                        THEN [h EXCEPT !.known_peers = ev.pids]
                        ELSE h
         IN [w |-> IF w1.known_ok /\ w1.connected_ok
                   THEN [w1 EXCEPT !.state = "Ok"]
                   ELSE w1,
             h |-> h1]

\* Mutant of join_all_ready: the first waiter to finish ends the wait
join_all_ready_any(ws) ==
    ws = <<>> \/ \E k \in 1..Len(ws) : ws[k].state # "pending"

\* join_all(connecting_futs) is ready once every future has completed
join_all_ready(ws) == \A k \in 1..Len(ws) : ws[k].state # "pending"

\* spin_up_swarms(num_of_nodes, timeout_len, num_bootstrap): entry. The two
\* creation loops are kept as the number of turns each still has to make:
\* num_bootstrap for the first, num_of_nodes - num_bootstrap for the second.
\* That is a usize subtraction: with num_bootstrap > num_of_nodes it panics
\* (overflow checks on) or wraps to a bound near 2^64 that the loop never
\* reaches (overflow checks off); "overflow" stands for both.
SpinUpSwarms(num_of_nodes, num_bootstrap) ==
    /\ sw.phase = "none"
    /\ sw' = [phase |-> IF num_bootstrap > 0 THEN "bootstrap" ELSE "config",
              num_of_nodes |-> num_of_nodes,
              bootstrap_left |-> num_bootstrap,
              regular_left |-> IF num_bootstrap > num_of_nodes
                               THEN 0
                               ELSE num_of_nodes - num_bootstrap,
              overflow |-> num_bootstrap > num_of_nodes,
              handles |-> <<>>,
              waiters |-> <<>>,
              ret |-> "none",
              returned |-> "none"]
    /\ UNCHANGED <<runner_vars, vs, hd>>

\* an error leaves spin_up_swarms through `?`: the handles are dropped
Fails(err) ==
    sw' = [sw EXCEPT !.phase = "done", !.ret = err, !.returned = "none"]

\* one turn of the bootstrap loop: NetworkNodeHandle::new(...).await? , then
\* the node's waiter future is built (not polled yet) and the handle pushed
CreateBootstrap(ok) ==
    /\ sw.phase = "bootstrap"
    /\ IF ok
       THEN sw' = [sw EXCEPT
                     !.handles = Append(@, new_handle),
                     !.waiters = Append(@, new_waiter),
                     !.bootstrap_left = @ - 1,
                     !.phase = IF sw.bootstrap_left > 1 THEN "bootstrap" ELSE "config"]
       ELSE Fails("NetworkError")
    /\ UNCHANGED <<runner_vars, vs, hd>>

\* NetworkNodeConfigBuilder...build().context(NodeConfigSnafu)? , then the
\* bound of the regular loop is computed
BuildRegularConfig(ok) ==
    /\ sw.phase = "config"
    /\ IF ~ok THEN Fails("NodeConfigError")
       ELSE IF sw.overflow
            THEN sw' = [sw EXCEPT !.phase = "overflow"]
            ELSE sw' = [sw EXCEPT
                          !.phase = IF sw.regular_left > 0 THEN "regular" ELSE "joining"]
    /\ UNCHANGED <<runner_vars, vs, hd>>

\* one turn of the regular loop
CreateRegular(ok) ==
    /\ sw.phase = "regular"
    /\ IF ok
       THEN sw' = [sw EXCEPT
                     !.handles = Append(@, new_handle),
                     !.waiters = Append(@, new_waiter),
                     !.regular_left = @ - 1,
                     !.phase = IF sw.regular_left > 1 THEN "regular" ELSE "joining"]
       ELSE Fails("NetworkError")
    /\ UNCHANGED <<runner_vars, vs, hd>>

\* join_all polls the waiter of node k, whose chan.recv_async() yields ev
WaiterRecv(k, ev) ==
    /\ sw.phase = "joining"
    /\ k \in 1..Len(sw.waiters)
    /\ sw.waiters[k].state = "pending"
    /\ ev.pids \subseteq 1..sw.num_of_nodes
    /\ LET st == wait_to_connect_step(sw.waiters[k], sw.handles[k], ev, sw.num_of_nodes)
       IN sw' = [sw EXCEPT !.waiters[k] = st.w, !.handles[k] = st.h]
    /\ UNCHANGED <<runner_vars, vs, hd>>

\* timeout(...) sees join_all ready: the Vec of the waiters' Results is
\* dropped unread, "Connected!" is printed and Ok(handles) returned
JoinReturns ==
    /\ sw.phase = "joining"
    /\ join_all_ready(sw.waiters)
    /\ sw' = [sw EXCEPT !.phase = "done", !.ret = "Ok", !.returned = sw.handles]
    /\ UNCHANGED <<runner_vars, vs, hd>>

\* timeout_len elapses while join_all is still pending: TimeoutError leaves
\* through .context(TimeoutSnafu)?
Timeout ==
    /\ sw.phase = "joining"
    /\ ~join_all_ready(sw.waiters)
    /\ Fails("TimeoutError")
    /\ UNCHANGED <<runner_vars, vs, hd>>

SwarmNext ==
    \/ \E n \in 0..MaxSwarm : \E b \in 0..(n + 1) : SpinUpSwarms(n, b)
    \/ \E ok \in BOOLEAN : CreateBootstrap(ok)
    \/ \E ok \in BOOLEAN : BuildRegularConfig(ok)
    \/ \E ok \in BOOLEAN : CreateRegular(ok)
    \/ \E k \in 1..MaxSwarm, ev \in Events(MaxSwarm) : WaiterRecv(k, ev)
    \/ JoinReturns
    \/ Timeout

SwarmSpec == Init /\ [][SwarmNext]_vars

(***************************************************************************)
(* TestRunner::validate_node_states                                        *)
(***************************************************************************)

Leaves == 1..MaxLeaves

\* the decided leaves of the held nodes, in list order
LeafLists == UNION {[1..n -> Leaves] : n \in 0..MaxValidated}

\* Mutant of validate_node_states: a single mismatch is not accepted
validate_node_states_strict(leaves) ==
    IF leaves = <<>> THEN "panic"
    ELSE IF \A idx \in 2..Len(leaves) : leaves[idx] = leaves[1] THEN "return"
         ELSE "panic"

\* Mutant of validate_node_states: any mismatch count below n-1 is accepted
validate_node_states_lenient(leaves) ==
    IF leaves = <<>> THEN "panic"
    ELSE LET mismatch_count ==
                Cardinality({idx \in 2..Len(leaves) : leaves[idx] # leaves[1]})
         IN IF mismatch_count < Len(leaves) - 1 THEN "return" ELSE "panic"

\* TestRunner::validate_node_states on the decided leaves of self.nodes:
\* "return" or "panic". split_first().unwrap() panics on no node. In the
\* branch mismatch_count == n - 1 the flag all_other_nodes_match is cleared
\* when two neighbours of `remaining` (windows(2)) are EQUAL.
validate_node_states(leaves) ==
    IF leaves = <<>> THEN "panic"
    ELSE LET first_leaf == Head(leaves)
             remaining == Tail(leaves)
             mismatch_count ==
                Cardinality({idx \in 1..Len(remaining) : first_leaf # remaining[idx]})
             all_other_nodes_match ==
                ~ \E w \in 1..(Len(remaining) - 1) : remaining[w] = remaining[w + 1]
         IN IF mismatch_count = 0 THEN "return"
            ELSE IF mismatch_count = 1 THEN "return"
            ELSE IF mismatch_count = Len(leaves) - 1 /\ all_other_nodes_match
                 THEN "return"
            ELSE "panic"

\* a test calls validate_node_states on a runner whose nodes report `leaves`
ValidateNodeStates(leaves) ==
    /\ vs' = [phase |-> "done", leaves |-> leaves,
              outcome |-> validate_node_states(leaves)]
    /\ UNCHANGED <<runner_vars, sw, hd>>

ValidateNext == \E leaves \in LeafLists : ValidateNodeStates(leaves)

ValidateSpec == Init /\ [][ValidateNext]_vars

(***************************************************************************)
(* NetworkNodeHandle: kill and the event-handler task of spawn_handler     *)
(***************************************************************************)

\* NetworkNodeHandle::new returned Ok: the network node runs and holds the
\* receiver of the command channel and the sender of the event channel; the
\* kill channel (capacity 1) is empty and both its ends live in the handle;
\* no event-handler task yet
new_node_handle ==
    [phase |-> "live",
     net |-> "up",             \* the network node: "up" or "gone"
     commands |-> 0,           \* Shutdown requests sent on send_network
     kill_chan |-> 0,          \* messages waiting in the kill channel
     kill_sent |-> 0,          \* sends on kill_switch that went through
     emitted |-> 0,            \* events the network node has sent so far
     events |-> <<>>,          \* events waiting in the event channel
     task |-> "none",          \* none, select, handling, exited, failed
     handled |-> <<>>,         \* events event_handler was invoked on, in order
     inflight |-> {},          \* events whose event_handler call has not returned
     kill |-> "none",          \* kill() in progress: none, or at its second send
     kills |-> 0,              \* kill() calls begun
     ret |-> "none"]           \* what the last completed kill() returned

\* Mutant of kill_after_shutdown: the error of the first send is ignored
kill_after_shutdown_ignored(net) == "signal"

\* kill: send_network.send_async(Shutdown).await.map_err(StreamClosed)? ;
\* the send fails when the receiver, held by the network node, is dropped
kill_after_shutdown(net) == IF net = "gone" THEN "StreamClosed" ELSE "signal"

\* Mutant of after_event_taken: the handler's future is not awaited and the
\* loop goes straight back to select!
after_event_taken_detached == "select"

\* event_handler(event, handle).await: the loop stays in the call until the
\* handler's future completes
after_event_taken == "handling"

\* Mutant of after_kill_taken: the kill arm goes round the loop again
after_kill_taken_continue == "select"

\* the kill arm of select!: break, and the task returns Ok(())
after_kill_taken == "exited"

HandleNew ==
    /\ hd = NoHandle
    /\ hd' = new_node_handle
    /\ UNCHANGED <<runner_vars, sw, vs>>

\* spawn_handler: the task is spawned and waits in select!
SpawnHandler ==
    /\ hd.phase = "live"
    /\ hd.task = "none"
    /\ hd' = [hd EXCEPT !.task = "select"]
    /\ UNCHANGED <<runner_vars, sw, vs>>

\* the network node sends an event on the event channel
NetworkEmit ==
    /\ hd.phase = "live"
    /\ hd.net = "up"
    /\ hd.emitted < MaxEvents
    /\ hd' = [hd EXCEPT !.emitted = @ + 1, !.events = Append(@, hd.emitted + 1)]
    /\ UNCHANGED <<runner_vars, sw, vs>>

\* the network node ends (on a Shutdown request or on its own): its
\* receiver of the command channel and its sender of the event channel drop
NetworkStops ==
    /\ hd.phase = "live"
    /\ hd.net = "up"
    /\ hd' = [hd EXCEPT !.net = "gone"]
    /\ UNCHANGED <<runner_vars, sw, vs>>

\* kill(), first send: Shutdown on the command channel
KillSendShutdown ==
    /\ hd.phase = "live"
    /\ hd.kill = "none"
    /\ hd.kills < MaxKills
    /\ IF kill_after_shutdown(hd.net) = "StreamClosed"
       THEN hd' = [hd EXCEPT !.kills = @ + 1, !.ret = "StreamClosed"]
       ELSE hd' = [hd EXCEPT !.kills = @ + 1, !.kill = "signal",
                             !.commands = @ + 1]
    /\ UNCHANGED <<runner_vars, sw, vs>>

\* kill(), second send: () on kill_switch, which waits while the channel is
\* full; the handle itself holds recv_kill, so the send cannot fail; Ok(())
KillSignal ==
    /\ hd.phase = "live"
    /\ hd.kill = "signal"
    /\ hd.kill_chan = 0
    /\ hd' = [hd EXCEPT !.kill_chan = 1, !.kill_sent = @ + 1,
                        !.kill = "none", !.ret = "Ok"]
    /\ UNCHANGED <<runner_vars, sw, vs>>

\* select!: recv_kill.recv_async() is ready; break, the task ends with Ok
TaskTakesKill ==
    /\ hd.phase = "live"
    /\ hd.task = "select"
    /\ hd.kill_chan = 1
    /\ hd' = [hd EXCEPT !.kill_chan = 0, !.task = after_kill_taken]
    /\ UNCHANGED <<runner_vars, sw, vs>>

\* select!: recv_event.recv_async() yields an event; event_handler is called
TaskTakesEvent ==
    /\ hd.phase = "live"
    /\ hd.task = "select"
    /\ hd.events # <<>>
    /\ hd' = [hd EXCEPT !.events = Tail(@), !.handled = Append(@, Head(hd.events)),
                        !.inflight = @ \cup {Head(hd.events)},
                        !.task = after_event_taken]
    /\ UNCHANGED <<runner_vars, sw, vs>>

\* select!: recv_event.recv_async() yields RecvError (channel empty and the
\* sender dropped); `?` ends the task with the error
TaskRecvError ==
    /\ hd.phase = "live"
    /\ hd.task = "select"
    /\ hd.events = <<>>
    /\ hd.net = "gone"
    /\ hd' = [hd EXCEPT !.task = "failed"]
    /\ UNCHANGED <<runner_vars, sw, vs>>

\* event_handler(event, handle).await? returns: on Ok the loop goes round,
\* on Err the task ends with the error
HandlerReturns(ok) ==
    /\ hd.phase = "live"
    /\ hd.task = "handling"
    /\ hd' = [hd EXCEPT !.task = IF ok THEN "select" ELSE "failed", !.inflight = {}]
    /\ UNCHANGED <<runner_vars, sw, vs>>

HandleNext ==
    \/ HandleNew
    \/ SpawnHandler
    \/ NetworkEmit
    \/ NetworkStops
    \/ KillSendShutdown
    \/ KillSignal
    \/ TaskTakesKill
    \/ TaskTakesEvent
    \/ TaskRecvError
    \/ \E ok \in BOOLEAN : HandlerReturns(ok)

HandleSpec == Init /\ [][HandleNext]_vars

\* The same under the scheduling the code has: a send on kill_switch that
\* can go through does; an event_handler invocation completes; and select!
\* (futures::select!, which picks at random among the arms that are ready)
\* does not pass over a ready kill arm for ever.
HandleFairSpec ==
    /\ HandleSpec
    /\ WF_vars(KillSignal)
    /\ WF_vars(\E ok \in BOOLEAN : HandlerReturns(ok))
    /\ SF_vars(TaskTakesKill)

(***************************************************************************)
(* Properties of spin_up_swarms                                            *)
(***************************************************************************)

\* the connectivity threshold as the specification states it: ceil(3N/4)
CeilThreshold(n) == (3 * n + 3) \div 4

SwarmReturnedOk == sw.phase = "done" /\ sw.ret = "Ok"

\* C9 as stated: after a successful spin_up_swarms(N, _, B) every returned
\* handle holds at least ceil(3N/4) connected peers and ceil(3N/4) known peers
C9_Original ==
    SwarmReturnedOk =>
        \A k \in 1..Len(sw.returned) :
            /\ Cardinality(sw.returned[k].connected_peers) >= CeilThreshold(sw.num_of_nodes)
            /\ Cardinality(sw.returned[k].known_peers) >= CeilThreshold(sw.num_of_nodes)

\* C10: spin_up_swarms returns Ok only with one handle per node and every
\* waiter completed; when the timeout fires with a waiter pending it returns
\* TimeoutError and hands no handle back
C10_NoPartialCluster ==
    sw.phase = "done" =>
        /\ sw.ret # "Ok" => sw.returned = "none"
        /\ sw.ret = "Ok" =>
              /\ Len(sw.returned) = sw.num_of_nodes
              /\ sw.returned = sw.handles
              /\ \A k \in 1..Len(sw.waiters) : sw.waiters[k].state # "pending"
        /\ sw.ret = "TimeoutError" =>
              /\ Len(sw.waiters) = sw.num_of_nodes
              /\ \E k \in 1..Len(sw.waiters) : sw.waiters[k].state = "pending"

\* the timeout fired with one waiter done and another still pending
C10_Witness ==
    /\ sw.phase = "done"
    /\ sw.ret = "TimeoutError"
    /\ \E k \in 1..Len(sw.waiters) : sw.waiters[k].state = "Ok"
    /\ \E k \in 1..Len(sw.waiters) : sw.waiters[k].state = "pending"

(***************************************************************************)
(* Properties of the TestRunner                                            *)
(***************************************************************************)

Range(f) == {f[x] : x \in DOMAIN f}

StrictlyIncreasing(sq) == \A a, b \in 1..Len(sq) : a < b => sq[a] < sq[b]

\* the sequence sq with every occurrence of x deleted, order kept
RECURSIVE Without(_, _)
Without(sq, x) ==
    IF sq = <<>> THEN <<>>
    ELSE IF Head(sq) = x THEN Without(Tail(sq), x)
         ELSE <<Head(sq)>> \o Without(Tail(sq), x)

\* C1: every held node has node_id < next_node_id, and there are at most
\* next_node_id held nodes, in every reachable state of the runner
C1_IdsBelowCounter ==
    /\ \A k \in 1..Len(nodes) : nodes[k].node_id < next_node_id
    /\ Len(nodes) <= next_node_id

\* a round is past its setup hook, which shut a node down, and nodes are held
C1_Witness ==
    /\ pc = "post"
    /\ Len(nodes) = 2
    /\ next_node_id = 3
    /\ shut # {}

\* C2: node ids are never reused: the ids returned by the adds are strictly
\* increasing in call order (shut-down nodes included), and so are the ids of
\* the held nodes in list order
C2_IdsNeverReused ==
    /\ StrictlyIncreasing(returned_ids)
    /\ StrictlyIncreasing(ids(nodes))
    /\ \A k \in 1..Len(nodes) : nodes[k].node_id \in Range(returned_ids)

\* an add has just returned an id after an earlier node had been shut down
C2_Witness ==
    /\ ret.op = "add_node_with_config"
    /\ ret.val = 2
    /\ shut = {0}
    /\ ids(nodes) = <<1, 2>>

\* C3: a shutdown(id) that succeeds leaves get_handle(id) = None and
\* next_node_id unchanged, removes and shuts down exactly that node, and
\* ids() is the former ids() with id deleted, the others in their order
C3_ShutdownOk ==
    [][(ret'.op = "shutdown" /\ ret'.val.tag = "Ok") =>
         /\ get_handle(nodes', ret'.arg) = "None"
         /\ next_node_id' = next_node_id
         /\ ret'.arg \in Range(ids(nodes))
         /\ Len(nodes') = Len(nodes) - 1
         /\ ids(nodes') = Without(ids(nodes), ret'.arg)
         /\ Range(nodes') = Range(nodes) \ {n \in Range(nodes) : n.node_id = ret'.arg}
         /\ shut' = shut \cup {get_handle(nodes, ret'.arg)}
         /\ get_handle(nodes, ret'.arg) \notin shut]_vars

\* shutdown(1) has just succeeded on nodes 0, 1, 2
C3_Witness ==
    /\ ret.op = "shutdown"
    /\ ret.val.tag = "Ok"
    /\ ret.arg = 1
    /\ ids(nodes) = <<0, 2>>
    /\ shut = {1}

\* C4: shutdown(id) of an id that is not held returns NoSuchNode with
\* node_ids = ids() and requested_id = id, shuts no node down and leaves
\* nodes and next_node_id as they were
C4_ShutdownNoSuchNode ==
    [][(ret'.op = "shutdown" /\ ret'.arg \notin Range(ids(nodes))) =>
         /\ ret'.val.tag = "NoSuchNode"
         /\ ret'.val.node_ids = ids(nodes)
         /\ ret'.val.requested_id = ret'.arg
         /\ nodes' = nodes
         /\ next_node_id' = next_node_id
         /\ shut' = shut]_vars

\* the second shutdown(1) after add_nodes(3) and shutdown(1)
C4_Witness ==
    /\ ret = [op |-> "shutdown", arg |-> 1,
              val |-> [tag |-> "NoSuchNode", node_ids |-> <<0, 2>>, requested_id |-> 1]]
    /\ returned_ids = <<0, 1, 2>>
    /\ shut = {1}
    /\ ids(nodes) = <<0, 2>>

\* the step that led to this state is an execute_round returning Ok
RoundReturnedOk ==
    /\ ret.op \in {"execute_round", "execute_rounds"}
    /\ ret.round = "Ok"

\* C5: when execute_round returns Ok, the key sets of success_nodes and
\* failed_nodes of its RoundResult are disjoint and together are the ids of
\* the held nodes, so their sizes add up to the number of nodes
C5_ResultPartitionsNodes ==
    RoundReturnedOk =>
        /\ result.built
        /\ (DOMAIN result.success_nodes) \cap (DOMAIN result.failed_nodes) = {}
        /\ (DOMAIN result.success_nodes) \cup (DOMAIN result.failed_nodes)
              = Range(ids(nodes))
        /\ Cardinality(DOMAIN result.success_nodes)
              + Cardinality(DOMAIN result.failed_nodes) = Len(nodes)

\* a round returned Ok with one node that decided and one that failed, after
\* a node had been shut down
C5_Witness ==
    /\ RoundReturnedOk
    /\ Len(nodes) = 2
    /\ Cardinality(DOMAIN result.success_nodes) = 1
    /\ Cardinality(DOMAIN result.failed_nodes) = 1
    /\ shut # {}

RoundsRun == rounds.ok + rounds.pre_err + rounds.post_err
RoundsFailed == rounds.pre_err + rounds.post_err
ExecuteRoundsReturned == mode = "rounds" /\ ret.op = "execute_rounds"
ExecuteRoundsRunning == mode = "rounds" /\ pc \in {"pre", "setup", "run", "post"}

AllRoundsFailedPost(num_success, fail_threshold) ==
    /\ ExecuteRoundsReturned
    /\ er.num_success = num_success
    /\ er.fail_threshold = fail_threshold
    /\ rounds.ok = 0
    /\ rounds.pre_err = 0

C16_Original ==
    (ret.op = "add_random_transaction" /\ ret.arg.some)
        => ret.val.node_id = ret.arg.id

\* the first call logged of a round is the pre-check, and it returned Err
PreCheckFailed == calls # <<>> /\ calls[1].res = "Err"

\* C17: when safety_check_pre returns an error, execute_round returns that
\* error, and the pre-check is the only call of the round: no setup_round,
\* no start_one_round or collect_round_events on any node, no
\* safety_check_post, and no RoundResult is built
C17_PreCheckFailure ==
    PreCheckFailed =>
        /\ calls = <<Call("safety_check_pre", -1, "Err")>>
        /\ ret.op \in {"execute_round", "execute_rounds"}
        /\ ret.round = "Err"
        /\ ret.error = "PreCheckError"
        /\ result = NoResult

\* a pre-check failed in a runner that holds nodes to start
C17_Witness ==
    /\ PreCheckFailed
    /\ Len(nodes) >= 2
    /\ ret.op = "execute_round"

\* the calls the last round made on the node handles, in order
HandleCalls ==
    SelectSeq(calls, LAMBDA c : c.op \in {"start_one_round", "collect_round_events"})

\* run_one_round of the last round has gone through both of its loops
RoundRan ==
    /\ Len(calls) >= 2
    /\ \/ pc \in {"post", "idle", "pre"}
       \/ pc = "panicked" /\ ret.in = "run_one_round"

\* C18: in a round, the calls on the handles are: start_one_round once on
\* every held node, and only then collect_round_events once per node in the
\* order of the node list
C18_StartAllThenCollectInOrder ==
    RoundRan =>
        LET n == Len(nodes)
            hc == HandleCalls
        IN /\ Len(hc) = 2 * n
           /\ \A k \in 1..n :
                /\ hc[k].op = "start_one_round"
                /\ \E j \in 1..n : hc[j].node = nodes[k].handle
                /\ hc[n + k].op = "collect_round_events"
                /\ hc[n + k].node = nodes[k].handle

\* a round ran over two nodes whose place in the list is not their id
C18_Witness ==
    /\ pc = "post"
    /\ Len(nodes) = 2
    /\ nodes[1].node_id = 1
    /\ Len(HandleCalls) = 4

\* the ids of the nodes whose collect_round_events returned Err in the last round
FailedInCalls ==
    {nodes[k].node_id : k \in {j \in 1..Len(nodes) :
        \E i \in 1..Len(calls) : /\ calls[i].op = "collect_round_events"
                                 /\ calls[i].node = nodes[j].handle
                                 /\ calls[i].res = "Err"}}

\* C19: once every collect_round_events has returned, the round reaches the
\* post-check with a RoundResult whose failed_nodes are the nodes that
\* failed. Violated: run_one_round ends in the placeholder nll_todo(), which
\* can panic, and then no RoundResult exists and safety_check_post is not
\* called.
C19_Original ==
    /\ ~(pc = "panicked" /\ ret.in = "run_one_round")
    /\ pc = "post" => /\ result.built
                      /\ DOMAIN result.failed_nodes = FailedInCalls

\* the fault bound of n nodes
FaultBound(n) == (n - 1) \div 3

\* C20: a RoundResult over n >= 1 nodes has success = true exactly when at
\* most floor((n-1)/3) nodes failed. Violated: success is whatever the placeholder
\* yields, nothing is computed from failed_nodes.
C20_Original ==
    (result.built /\ nodes # <<>>) =>
        (result.success <=> Cardinality(DOMAIN result.failed_nodes) <= FaultBound(Len(nodes)))

\* validate_node_states has been called on at least one node
Validated == vs.phase = "done" /\ vs.leaves # <<>>

\* the number of nodes whose leaf differs from the first node's leaf
Mismatching == Cardinality({k \in 2..Len(vs.leaves) : vs.leaves[k] # vs.leaves[1]})

C13_Original ==
    (Validated /\ Len(vs.leaves) = 3 /\ Mismatching = 2) => vs.outcome = "panic"

\* C14: validate_node_states panics whenever the number m of nodes
\* mismatching the first node's leaf has 2 <= m <= n-2, as with 4 nodes
\* split into two pairs in any order
C14_PanicsOnBroadSplit ==
    (Validated /\ 2 <= Mismatching /\ Mismatching <= Len(vs.leaves) - 2)
        => vs.outcome = "panic"

\* four nodes, two pairs with different leaves, interleaved
C14_Witness ==
    /\ Validated
    /\ vs.leaves = <<1, 2, 2, 1>>
    /\ vs.outcome = "panic"

\* C15: whenever validate_node_states returns on n nodes, at least n-1 of
\* them hold the same leaf. Violated: three nodes with three different
\* leaves are accepted.
C15_Original ==
    (Validated /\ vs.outcome = "return") =>
        \E l \in Leaves :
            Cardinality({k \in 1..Len(vs.leaves) : vs.leaves[k] = l})
                >= Len(vs.leaves) - 1

\* C11: a kill() called when the network node is gone (the receiver of the
\* command channel dropped) returns StreamClosed at its first send: the call
\* is over and the kill switch has not been touched
C11_KillOnDeadNode ==
    [][(hd.phase = "live" /\ hd.net = "gone" /\ hd'.kills = hd.kills + 1)
          => /\ hd'.ret = "StreamClosed"
             /\ hd'.kill = "none"
             /\ hd'.kill_chan = hd.kill_chan
             /\ hd'.kill_sent = hd.kill_sent]_vars

\* kill() returned StreamClosed on a handle whose network node is gone and
\* whose event-handler task had been spawned
C11_Witness ==
    /\ hd.phase = "live"
    /\ hd.net = "gone"
    /\ hd.task # "none"
    /\ hd.ret = "StreamClosed"

\* the leaves of the nodes after the first are pairwise different
RemainingPairwiseDiffer ==
    \A j, k \in 2..Len(vs.leaves) : j # k => vs.leaves[j] # vs.leaves[k]

\* C21: when all n-1 >= 2 other nodes mismatch the first node's leaf,
\* validate_node_states returns exactly when the other nodes' leaves differ
\* pairwise, and panics otherwise. Violated: only neighbours in the list are
\* compared, so leaves A, B, C, B are accepted.
C21_Original ==
    (Validated /\ Len(vs.leaves) >= 3 /\ Mismatching = Len(vs.leaves) - 1)
        => (vs.outcome = "return" <=> RemainingPairwiseDiffer)

\* C22: after every round of execute_rounds that produced a RoundResult, the
\* context's prior_round_results holds one entry per such round. Violated:
\* nothing appends to it.
C22_Original ==
    mode = "rounds" =>
        Len(er.ctx.prior_round_results) = rounds.ok + rounds.post_err

\* C27: whenever execute_rounds(num_success, fail_threshold) returns Ok, at
\* least num_success of the rounds it ran returned Ok and at most
\* fail_threshold of them returned an error
C27_OkMeansEnoughSuccesses ==
    (ExecuteRoundsReturned /\ ret.val = "Ok") =>
        /\ rounds.ok >= er.num_success
        /\ RoundsFailed <= er.fail_threshold

\* execute_rounds(1, 2) returned Ok after two rounds without error and one
\* failed round
C27_Witness ==
    /\ ExecuteRoundsReturned
    /\ ret.val = "Ok"
    /\ er.num_success = 1
    /\ er.fail_threshold = 2
    /\ rounds.ok = 2
    /\ RoundsFailed = 1

\* C26: when a node's connectivity waiter ended in RecvError (before both
\* of its flags were up), spin_up_swarms does not return Ok. Violated: the
\* waiters' Results are dropped unread.
C26_Original ==
    (sw.phase = "done" /\ \E k \in 1..Len(sw.waiters) : sw.waiters[k].state = "RecvError")
        => sw.ret # "Ok"

\* the events 1..n in the order the network node sent them
InOrder(n) == [k \in 1..n |-> k]

\* C23: the task hands the events to event_handler in the order of the
\* channel, none passed over (the events handled and those still waiting
\* make up the events sent, in order), and at most one invocation is in
\* progress at any time
C23_EventsInOrderOneAtATime ==
    hd.phase = "live" =>
        /\ hd.handled = InOrder(Len(hd.handled))
        /\ hd.handled \o hd.events = InOrder(hd.emitted)
        /\ Cardinality(hd.inflight) <= 1
        /\ hd.inflight # {} => hd.task = "handling"

\* both events were handled, the second after the first invocation returned
C23_Witness ==
    /\ hd.phase = "live"
    /\ hd.handled = <<1, 2>>
    /\ hd.task = "select"

\* C24: once the kill switch has been signalled, a spawned event-handler
\* task eventually ends, and a task that has taken the kill signal handles
\* no further event, whatever still arrives on the event channel
C24_KillEndsTask ==
    /\ [][(hd.phase = "live" /\ hd.task = "exited") =>
            (hd'.task = "exited" /\ hd'.handled = hd.handled)]_vars
    /\ (hd.phase = "live" /\ hd.kill_sent >= 1 /\ hd.task # "none")
          ~> (hd.phase = "live" /\ hd.task \in {"exited", "failed"})

\* the task took the kill signal while an event was waiting, unhandled
C24_Witness ==
    /\ hd.phase = "live"
    /\ hd.kill_sent >= 1
    /\ hd.task = "exited"
    /\ hd.events # <<>>
    /\ hd.handled # <<>>

\* C25: the kill switch of a handle is signalled at most once, however many
\* times kill() is called. Violated: every kill() call sends on it.
C25_Original == hd.phase = "live" => hd.kill_sent <= 1

\* C28: a kill() call never waits for ever on the kill channel: it is never
\* at its second send with the channel full and the event-handler task
\* already ended, a state in which nothing will take the message out.
\* Violated after a first kill() whose signal no task took.
C28_Original ==
    ~(/\ hd.phase = "live"
      /\ hd.kill = "signal"
      /\ hd.kill_chan = 1
      /\ hd.task \in {"exited", "failed"})

====
